---- MODULE Spec2Model ----
(***************************************************************************)
(* Graph execution engines of WorkFlow-Agent-Engine.                       *)
(*                                                                         *)
(* Discipline A: workflow_engine.Workflow, a breadth-first traversal with  *)
(* a visited set (src/workflow_engine.py).                                 *)
(* Discipline B: app.engine.Engine, a single-successor traversal with a    *)
(* step ceiling (src/app/engine.py).                                       *)
(*                                                                         *)
(* Node operations and Discipline A's edge predicates are callables the    *)
(* engine only invokes: an invocation's outcome is drawn from a small set. *)
(***************************************************************************)
EXTENDS Integers, Sequences, FiniteSets, TLC

VARIABLES
    discipline,         \* which engine the caller drives: "A" or "B"
    \* ---- Workflow (Discipline A) ----
    nodes,              \* Workflow.nodes: the ids that have a Node
    node_status,        \* Node.status of each id (meaningful for ids in nodes)
    node_error,         \* Node.error of each id
    edges,              \* Workflow.edges: list of Edge
    state,              \* Workflow.state: dict
    status,             \* Workflow.status
    start_node,         \* Workflow.start_node
    end_nodes,          \* Workflow.end_nodes: list of ids
    execution_history,  \* Workflow.execution_history: list of entries
    pc,                 \* position of the caller: "idle", or "for" inside execute
    current_nodes,      \* local of execute: the frontier being iterated
    next_nodes,         \* local of execute: the frontier being collected
    visited,            \* local of execute
    idx,                \* position of the for loop in current_nodes
    invoked,            \* how often each node's function was called in this run
    prior_status,       \* Workflow.status when the latest execute began, or None
    exc,                \* the exception the last call raised to its caller, or None
    \* ---- Engine (Discipline B) ----
    node_map,           \* Engine.node_map: node name -> tool_name
    engine_edges,       \* Engine.edges: list of Edge
    current_state,      \* Engine.current_state: State
    current_node_name,  \* local of Engine.execute
    steps,              \* local of Engine.execute
    engine_pc,          \* "idle", "loop" inside execute, "done" or "raised"
    executed,           \* the node names whose tool was called in this run, in order
    trace,              \* the State right after each of those node executions
    engine_exc,         \* the exception Engine.execute raised, or None
    \* ---- the service of app/main.py hosting Engines in background tasks ----
    GRAPHS,             \* main.GRAPHS: graph id -> Graph
    RUNS,               \* main.RUNS: run id -> run record
    tasks,              \* the background task of each run id: its position,
                        \* its arguments and the locals of its Engine
    response            \* what the latest request got back, or None

varsA == <<nodes, node_status, node_error, edges, state, status, start_node,
           end_nodes, execution_history, pc, current_nodes, next_nodes,
           visited, idx, invoked, prior_status, exc>>

varsB == <<node_map, engine_edges, current_state, current_node_name, steps,
           engine_pc, executed, trace, engine_exc>>

varsS == <<GRAPHS, RUNS, tasks, response>>

vars == <<discipline, varsA, varsB, varsS>>

None == "None"

\* a step of the Workflow leaves the Engine alone, and conversely
WorkflowStep == discipline = "A" /\ UNCHANGED <<discipline, varsB, varsS>>
EngineStep == discipline = "B" /\ UNCHANGED <<discipline, varsA, varsS>>

(***************************************************************************)
(* Inputs of Discipline A                                                  *)
(***************************************************************************)
NodeIds == {"a", "b", "c"}

\* dict keys and values a run works with; Absent marks a key not in the dict
Keys == {"x"}
Absent == "absent"
Vals == {"v0", "v1"}

EmptyDict == [k \in Keys |-> Absent]
Dicts == [Keys -> Vals \cup {Absent}]

\* initial_state arguments of execute: None (or {}), and {"x": "v0"}
InitialStates == {EmptyDict, [k \in Keys |-> "v0"]}

\* Edge conditions: None, api.py's key_exists on "x", and a predicate that
\* subscripts the dict, state["x"] == "v1", raising KeyError when x is absent
Conds == {None, "key_exists", "subscript"}

Edge(f, t, c) == [from_node |-> f, to_node |-> t, condition |-> c]

\* the Edge objects the caller passes to add_edge
EdgeInputs ==
    { Edge("a", "b", None),
      Edge("a", "c", "key_exists"),
      Edge("b", "c", None),
      Edge("c", "a", "subscript"),
      Edge("b", "b", None),
      Edge("b", "a", "subscript") }

MaxEdges == 3

(***************************************************************************)
(* Edge.should_traverse and Workflow.get_next_nodes                        *)
(***************************************************************************)
\* the condition callable raises on this dict
ConditionRaises(c, st) == c = "subscript" /\ st["x"] = Absent

\* the value the condition callable returns on this dict
ConditionValue(c, st) ==
    CASE c = "key_exists" -> st["x"] # Absent
      [] c = "subscript"  -> st["x"] = "v1"
      [] OTHER            -> FALSE

should_traverse(e, st) ==
    IF e.condition = None THEN TRUE ELSE ConditionValue(e.condition, st)

RECURSIVE NextFrom(_, _, _, _)
NextFrom(es, cur, st, k) ==
    IF k > Len(es) THEN <<>>
    ELSE (IF es[k].from_node = cur /\ should_traverse(es[k], st)
          THEN <<es[k].to_node>> ELSE <<>>) \o NextFrom(es, cur, st, k + 1)

\* get_next_nodes that compares edge.to_node with the current id
RECURSIVE NextFromPredecessors(_, _, _, _)
NextFromPredecessors(es, cur, st, k) ==
    IF k > Len(es) THEN <<>>
    ELSE (IF es[k].to_node = cur /\ should_traverse(es[k], st)
          THEN <<es[k].from_node>> ELSE <<>>)
         \o NextFromPredecessors(es, cur, st, k + 1)

get_next_nodes_predecessors(es, st, cur) == NextFromPredecessors(es, cur, st, 1)

\* get_next_nodes that appends a destination only if it is not in the list yet
RECURSIVE Dedup(_)
Dedup(r) ==
    IF r = <<>> THEN <<>>
    ELSE LET front == Dedup(SubSeq(r, 1, Len(r) - 1))
         IN  IF \E k \in 1..Len(front) : front[k] = r[Len(r)]
             THEN front ELSE Append(front, r[Len(r)])

get_next_nodes_deduplicated(es, st, cur) == Dedup(NextFrom(es, cur, st, 1))

\* get_next_nodes that returns at the first edge it may traverse
get_next_nodes_first_only(es, st, cur) ==
    IF NextFrom(es, cur, st, 1) = <<>> THEN <<>>
    ELSE <<NextFrom(es, cur, st, 1)[1]>>

get_next_nodes(es, st, cur) == NextFrom(es, cur, st, 1)

\* get_next_nodes raises when a condition of an edge leaving cur raises
get_next_nodes_raises(es, st, cur) ==
    \E k \in 1..Len(es) :
        /\ es[k].from_node = cur
        /\ es[k].condition # None
        /\ ConditionRaises(es[k].condition, st)

(***************************************************************************)
(* Initial state: a Workflow as its constructor leaves it                  *)
(***************************************************************************)
InitWorkflow ==
    /\ nodes = {}
    /\ node_status = [n \in NodeIds |-> "pending"]
    /\ node_error = [n \in NodeIds |-> None]
    /\ edges = <<>>
    /\ state = EmptyDict
    /\ status = "created"
    /\ start_node = None
    /\ end_nodes = <<>>
    /\ execution_history = <<>>
    /\ pc = "idle"
    /\ current_nodes = <<>>
    /\ next_nodes = <<>>
    /\ visited = {}
    /\ idx = 1
    /\ invoked = [n \in NodeIds |-> 0]
    /\ prior_status = None
    /\ exc = None

(***************************************************************************)
(* Configuration calls                                                     *)
(***************************************************************************)
runLocals == <<pc, current_nodes, next_nodes, visited, idx, invoked,
               prior_status>>
runRecord == <<state, status, execution_history>>

\* add_node(Node(n, f)): a fresh Node object, pending, replaces any older one
add_node(n) ==
    /\ WorkflowStep
    /\ pc = "idle"
    /\ nodes' = nodes \cup {n}
    /\ node_status' = [node_status EXCEPT ![n] = "pending"]
    /\ node_error' = [node_error EXCEPT ![n] = None]
    /\ exc' = None
    /\ UNCHANGED <<edges, start_node, end_nodes, runRecord, runLocals>>

\* add_edge that checks the source only
add_edge_unchecked_target(e) ==
    /\ WorkflowStep
    /\ pc = "idle"
    /\ IF e.from_node \notin nodes
       THEN /\ exc' = "ValueError: Source node not found"
            /\ edges' = edges
       ELSE /\ Len(edges) < MaxEdges
            /\ edges' = Append(edges, e)
            /\ exc' = None
    /\ UNCHANGED <<nodes, node_status, node_error, start_node, end_nodes,
                   runRecord, runLocals>>

add_edge(e) ==
    /\ WorkflowStep
    /\ pc = "idle"
    /\ IF e.from_node \notin nodes
       THEN /\ exc' = "ValueError: Source node not found"
            /\ edges' = edges
       ELSE IF e.to_node \notin nodes
       THEN /\ exc' = "ValueError: Target node not found"
            /\ edges' = edges
       ELSE /\ Len(edges) < MaxEdges
            /\ edges' = Append(edges, e)
            /\ exc' = None
    /\ UNCHANGED <<nodes, node_status, node_error, start_node, end_nodes,
                   runRecord, runLocals>>

\* set_entry_point that assigns before it looks the id up
set_entry_point_assign_first(n) ==
    /\ WorkflowStep
    /\ pc = "idle"
    /\ start_node' = n
    /\ exc' = IF n \notin nodes THEN "ValueError: Node not found" ELSE None
    /\ UNCHANGED <<nodes, node_status, node_error, edges, end_nodes,
                   runRecord, runLocals>>

set_entry_point(n) ==
    /\ WorkflowStep
    /\ pc = "idle"
    /\ IF n \notin nodes
       THEN /\ exc' = "ValueError: Node not found"
            /\ start_node' = start_node
       ELSE /\ start_node' = n
            /\ exc' = None
    /\ UNCHANGED <<nodes, node_status, node_error, edges, end_nodes,
                   runRecord, runLocals>>

InList(x, s) == \E k \in 1..Len(s) : s[k] = x

\* add_end_node without the membership test
add_end_node_unchecked(n) ==
    /\ WorkflowStep
    /\ pc = "idle"
    /\ end_nodes' = IF InList(n, end_nodes) THEN end_nodes
                    ELSE Append(end_nodes, n)
    /\ exc' = None
    /\ UNCHANGED <<nodes, node_status, node_error, edges, start_node,
                   runRecord, runLocals>>

add_end_node(n) ==
    /\ WorkflowStep
    /\ pc = "idle"
    /\ IF n \notin nodes
       THEN /\ exc' = "ValueError: Node not found"
            /\ end_nodes' = end_nodes
       ELSE /\ end_nodes' = IF InList(n, end_nodes) THEN end_nodes
                            ELSE Append(end_nodes, n)
            /\ exc' = None
    /\ UNCHANGED <<nodes, node_status, node_error, edges, start_node,
                   runRecord, runLocals>>

AddNode == \E n \in NodeIds : add_node(n)
AddEdge == \E e \in EdgeInputs : add_edge(e)
SetEntryPoint == \E n \in NodeIds : set_entry_point(n)
\* the ids the caller passes to add_end_node
EndInputs == {"c"}

AddEndNode == \E n \in EndInputs : add_end_node(n)

(***************************************************************************)
(* Workflow.execute                                                        *)
(***************************************************************************)
\* what calling a node's function on dict st can do: return the dict as it
\* is, set a key in it and return it, return {}, or raise
FunctionOutcomes(st) ==
    { [kind |-> "return", value |-> st],
      [kind |-> "return", value |-> [st EXCEPT !["x"] = "v1"]],
      [kind |-> "return", value |-> EmptyDict],
      [kind |-> "raise",  value |-> st] }

NodeError == "Exception: node function failed"
PredicateError == "KeyError: 'x'"

Entry(n, s, e) == [node_id |-> n, status |-> s, error |-> e]

\* the locals of execute are gone once it returns or raises
LocalsDropped ==
    /\ current_nodes' = <<>>
    /\ next_nodes' = <<>>
    /\ visited' = {}
    /\ idx' = 1

graph == <<nodes, edges, start_node, end_nodes>>

\* execute without the start_node test: the loop looks up self.nodes[None]
execute_no_entry_unchecked ==
    /\ WorkflowStep
    /\ pc = "idle"
    /\ start_node = None
    /\ state' = EmptyDict
    /\ status' = "failed"
    /\ execution_history' = <<>>
    /\ node_status' = [n \in NodeIds |-> "pending"]
    /\ node_error' = [n \in NodeIds |-> None]
    /\ exc' = "KeyError: None"
    /\ UNCHANGED <<graph, runLocals>>

\* execute with no entry point set
execute_no_entry ==
    /\ WorkflowStep
    /\ pc = "idle"
    /\ start_node = None
    /\ exc' = "ValueError: No entry point set for workflow"
    /\ UNCHANGED <<graph, node_status, node_error, runRecord, runLocals>>

\* execute_start without the reset of the history and of the nodes
execute_start_no_reset(init) ==
    /\ WorkflowStep
    /\ pc = "idle"
    /\ start_node # None
    /\ state' = init
    /\ status' = "running"
    /\ current_nodes' = <<start_node>>
    /\ visited' = {}
    /\ next_nodes' = <<>>
    /\ idx' = 1
    /\ invoked' = [n \in NodeIds |-> 0]
    /\ prior_status' = status
    /\ pc' = "for"
    /\ exc' = None
    /\ UNCHANGED <<graph, execution_history, node_status, node_error>>

\* execute_start whose reset also empties the list of end nodes
execute_start_clears_end_nodes(init) ==
    /\ WorkflowStep
    /\ pc = "idle"
    /\ start_node # None
    /\ state' = init
    /\ status' = "running"
    /\ execution_history' = <<>>
    /\ node_status' = [n \in NodeIds |-> "pending"]
    /\ node_error' = [n \in NodeIds |-> None]
    /\ end_nodes' = <<>>
    /\ current_nodes' = <<start_node>>
    /\ visited' = {}
    /\ next_nodes' = <<>>
    /\ idx' = 1
    /\ invoked' = [n \in NodeIds |-> 0]
    /\ prior_status' = status
    /\ pc' = "for"
    /\ exc' = None
    /\ UNCHANGED <<nodes, edges, start_node>>

\* execute up to the first iteration of the for loop
execute_start(init) ==
    /\ WorkflowStep
    /\ pc = "idle"
    /\ start_node # None
    /\ state' = init
    /\ status' = "running"
    /\ execution_history' = <<>>
    /\ node_status' = [n \in NodeIds |-> "pending"]
    /\ node_error' = [n \in NodeIds |-> None]
    /\ current_nodes' = <<start_node>>
    /\ visited' = {}
    /\ next_nodes' = <<>>
    /\ idx' = 1
    /\ invoked' = [n \in NodeIds |-> 0]
    /\ prior_status' = status
    /\ pc' = "for"
    /\ exc' = None
    /\ UNCHANGED graph

\* for node_id in current_nodes: if node_id in visited: continue
for_skip ==
    /\ WorkflowStep
    /\ pc = "for"
    /\ idx <= Len(current_nodes)
    /\ current_nodes[idx] \in visited
    /\ idx' = idx + 1
    /\ UNCHANGED <<graph, node_status, node_error, runRecord, pc,
                   current_nodes, next_nodes, visited, invoked, prior_status, exc>>

\* node_call that forgets visited.add(node_id)
node_call_unmarked ==
    /\ WorkflowStep
    /\ pc = "for"
    /\ idx <= Len(current_nodes)
    /\ current_nodes[idx] \notin visited
    /\ node_status' = [node_status EXCEPT ![current_nodes[idx]] = "running"]
    /\ invoked' = [invoked EXCEPT ![current_nodes[idx]] = @ + 1]
    /\ pc' = "call"
    /\ UNCHANGED <<graph, node_error, runRecord, current_nodes, next_nodes,
                   idx, exc, visited, prior_status>>

\* visited.add(node_id), then Node.execute up to the call of the function
node_call ==
    /\ WorkflowStep
    /\ pc = "for"
    /\ idx <= Len(current_nodes)
    /\ current_nodes[idx] \notin visited
    /\ visited' = visited \cup {current_nodes[idx]}
    /\ node_status' = [node_status EXCEPT ![current_nodes[idx]] = "running"]
    /\ invoked' = [invoked EXCEPT ![current_nodes[idx]] = @ + 1]
    /\ pc' = "call"
    /\ UNCHANGED <<graph, node_error, runRecord, current_nodes, next_nodes,
                   idx, exc, prior_status>>

\* node_raise that re-raises without appending the failed entry
node_raise_unlogged(node_id) ==
    /\ node_status' = [node_status EXCEPT ![node_id] = "failed"]
    /\ node_error' = [node_error EXCEPT ![node_id] = NodeError]
    /\ status' = "failed"
    /\ exc' = NodeError
    /\ pc' = "idle"
    /\ LocalsDropped
    /\ UNCHANGED <<graph, state, invoked, prior_status, execution_history>>

\* node_raise whose handler also resets the state
node_raise_rollback(node_id) ==
    /\ node_status' = [node_status EXCEPT ![node_id] = "failed"]
    /\ node_error' = [node_error EXCEPT ![node_id] = NodeError]
    /\ execution_history' =
           Append(execution_history, Entry(node_id, "failed", NodeError))
    /\ status' = "failed"
    /\ state' = EmptyDict
    /\ exc' = NodeError
    /\ pc' = "idle"
    /\ LocalsDropped
    /\ UNCHANGED <<graph, invoked, prior_status>>

\* node_raise whose handler in Node.execute re-raises without marking the node
node_raise_left_running(node_id) ==
    /\ execution_history' =
           Append(execution_history, Entry(node_id, "failed", NodeError))
    /\ status' = "failed"
    /\ exc' = NodeError
    /\ pc' = "idle"
    /\ LocalsDropped
    /\ UNCHANGED <<graph, state, invoked, prior_status, node_status, node_error>>

\* node_raise whose handler records the failure and goes on with the loop
node_raise_continue(node_id) ==
    /\ node_status' = [node_status EXCEPT ![node_id] = "failed"]
    /\ node_error' = [node_error EXCEPT ![node_id] = NodeError]
    /\ execution_history' =
           Append(execution_history, Entry(node_id, "failed", NodeError))
    /\ idx' = idx + 1
    /\ pc' = "for"
    /\ UNCHANGED <<graph, state, status, exc, current_nodes, next_nodes,
                   visited, invoked, prior_status>>

\* the function raises: Node.execute and Workflow.execute record and re-raise
node_raise(node_id) ==
    /\ node_status' = [node_status EXCEPT ![node_id] = "failed"]
    /\ node_error' = [node_error EXCEPT ![node_id] = NodeError]
    /\ execution_history' =
           Append(execution_history, Entry(node_id, "failed", NodeError))
    /\ status' = "failed"
    /\ exc' = NodeError
    /\ pc' = "idle"
    /\ LocalsDropped
    /\ UNCHANGED <<graph, state, invoked, prior_status>>

\* node_return without the end-node test: successors are sought after every node
node_return_no_end_test(node_id, result) ==
    /\ node_status' = [node_status EXCEPT ![node_id] = "completed"]
    /\ state' = result
    /\ execution_history' =
           Append(execution_history, Entry(node_id, "completed", None))
    /\ IF get_next_nodes_raises(edges, result, node_id)
       THEN /\ status' = "failed"
            /\ exc' = PredicateError
            /\ pc' = "idle"
            /\ LocalsDropped
       ELSE /\ next_nodes' = next_nodes \o get_next_nodes(edges, result, node_id)
            /\ idx' = idx + 1
            /\ pc' = "for"
            /\ UNCHANGED <<status, exc, current_nodes, visited>>
    /\ UNCHANGED <<graph, node_error, invoked, prior_status>>

\* node_return with the append placed after the end-node test: the entry of
\* an end node is never appended
node_return_end_unlogged(node_id, result) ==
    /\ node_status' = [node_status EXCEPT ![node_id] = "completed"]
    /\ state' = result
    /\ IF InList(node_id, end_nodes)
       THEN /\ idx' = idx + 1
            /\ pc' = "for"
            /\ UNCHANGED <<status, exc, current_nodes, next_nodes, visited,
                           execution_history>>
       ELSE IF get_next_nodes_raises(edges, result, node_id)
       THEN /\ execution_history' =
                   Append(execution_history, Entry(node_id, "completed", None))
            /\ status' = "failed"
            /\ exc' = PredicateError
            /\ pc' = "idle"
            /\ LocalsDropped
       ELSE /\ execution_history' =
                   Append(execution_history, Entry(node_id, "completed", None))
            /\ next_nodes' = next_nodes \o get_next_nodes(edges, result, node_id)
            /\ idx' = idx + 1
            /\ pc' = "for"
            /\ UNCHANGED <<status, exc, current_nodes, visited>>
    /\ UNCHANGED <<graph, node_error, invoked, prior_status>>

\* node_return that runs the successors next, ahead of the rest of the frontier
node_return_depth_first(node_id, result) ==
    /\ node_status' = [node_status EXCEPT ![node_id] = "completed"]
    /\ state' = result
    /\ execution_history' =
           Append(execution_history, Entry(node_id, "completed", None))
    /\ IF InList(node_id, end_nodes)
       THEN /\ idx' = idx + 1
            /\ pc' = "for"
            /\ UNCHANGED <<status, exc, current_nodes, next_nodes, visited>>
       ELSE IF get_next_nodes_raises(edges, result, node_id)
       THEN /\ status' = "failed"
            /\ exc' = PredicateError
            /\ pc' = "idle"
            /\ LocalsDropped
       ELSE /\ current_nodes' =
                   SubSeq(current_nodes, 1, idx)
                     \o get_next_nodes(edges, result, node_id)
                     \o SubSeq(current_nodes, idx + 1, Len(current_nodes))
            /\ idx' = idx + 1
            /\ pc' = "for"
            /\ UNCHANGED <<status, exc, next_nodes, visited>>
    /\ UNCHANGED <<graph, node_error, invoked, prior_status>>

\* node_return that evaluates the predicates on the state the node was given
node_return_stale_predicates(node_id, result) ==
    /\ node_status' = [node_status EXCEPT ![node_id] = "completed"]
    /\ state' = result
    /\ execution_history' =
           Append(execution_history, Entry(node_id, "completed", None))
    /\ IF InList(node_id, end_nodes)
       THEN /\ idx' = idx + 1
            /\ pc' = "for"
            /\ UNCHANGED <<status, exc, current_nodes, next_nodes, visited>>
       ELSE IF get_next_nodes_raises(edges, state, node_id)
       THEN /\ status' = "failed"
            /\ exc' = PredicateError
            /\ pc' = "idle"
            /\ LocalsDropped
       ELSE /\ next_nodes' = next_nodes \o get_next_nodes(edges, state, node_id)
            /\ idx' = idx + 1
            /\ pc' = "for"
            /\ UNCHANGED <<status, exc, current_nodes, visited>>
    /\ UNCHANGED <<graph, node_error, invoked, prior_status>>

\* the function returns: the rest of the loop body
node_return(node_id, result) ==
    /\ node_status' = [node_status EXCEPT ![node_id] = "completed"]
    /\ state' = result
    /\ execution_history' =
           Append(execution_history, Entry(node_id, "completed", None))
    /\ IF InList(node_id, end_nodes)
       THEN /\ idx' = idx + 1
            /\ pc' = "for"
            /\ UNCHANGED <<status, exc, current_nodes, next_nodes, visited>>
       ELSE IF get_next_nodes_raises(edges, result, node_id)
       THEN /\ status' = "failed"
            /\ exc' = PredicateError
            /\ pc' = "idle"
            /\ LocalsDropped
       ELSE /\ next_nodes' = next_nodes \o get_next_nodes(edges, result, node_id)
            /\ idx' = idx + 1
            /\ pc' = "for"
            /\ UNCHANGED <<status, exc, current_nodes, visited>>
    /\ UNCHANGED <<graph, node_error, invoked, prior_status>>

node_finish ==
    /\ WorkflowStep
    /\ pc = "call"
    /\ \E o \in FunctionOutcomes(state) :
         IF o.kind = "raise"
         THEN node_raise(current_nodes[idx])
         ELSE node_return(current_nodes[idx], o.value)

\* for_end with next_nodes = [] hoisted out of the while loop: the collected
\* frontier is never emptied
for_end_keep_next ==
    /\ WorkflowStep
    /\ pc = "for"
    /\ idx > Len(current_nodes)
    /\ IF next_nodes = <<>>
       THEN /\ status' = "completed"
            /\ pc' = "idle"
            /\ LocalsDropped
       ELSE /\ current_nodes' = next_nodes
            /\ idx' = 1
            /\ UNCHANGED <<status, pc, visited, next_nodes>>
    /\ UNCHANGED <<graph, node_status, node_error, state, execution_history,
                   invoked, prior_status, exc>>

\* for_end that returns without setting the status
for_end_no_status ==
    /\ WorkflowStep
    /\ pc = "for"
    /\ idx > Len(current_nodes)
    /\ IF next_nodes = <<>>
       THEN /\ pc' = "idle"
            /\ LocalsDropped
            /\ UNCHANGED status
       ELSE /\ current_nodes' = next_nodes
            /\ next_nodes' = <<>>
            /\ idx' = 1
            /\ UNCHANGED <<status, pc, visited>>
    /\ UNCHANGED <<graph, node_status, node_error, state, execution_history,
                   invoked, prior_status, exc>>

\* for_end that keeps only the first collected id as the next frontier
for_end_head_only ==
    /\ WorkflowStep
    /\ pc = "for"
    /\ idx > Len(current_nodes)
    /\ IF next_nodes = <<>>
       THEN /\ status' = "completed"
            /\ pc' = "idle"
            /\ LocalsDropped
       ELSE /\ current_nodes' = <<Head(next_nodes)>>
            /\ next_nodes' = <<>>
            /\ idx' = 1
            /\ UNCHANGED <<status, pc, visited>>
    /\ UNCHANGED <<graph, node_status, node_error, state, execution_history,
                   invoked, prior_status, exc>>

\* the for loop is over: current_nodes = next_nodes and the while test
for_end ==
    /\ WorkflowStep
    /\ pc = "for"
    /\ idx > Len(current_nodes)
    /\ IF next_nodes = <<>>
       THEN /\ status' = "completed"
            /\ pc' = "idle"
            /\ LocalsDropped
       ELSE /\ current_nodes' = next_nodes
            /\ next_nodes' = <<>>
            /\ idx' = 1
            /\ UNCHANGED <<status, pc, visited>>
    /\ UNCHANGED <<graph, node_status, node_error, state, execution_history,
                   invoked, prior_status, exc>>

ExecuteStart == \E init \in InitialStates : execute_start(init)

(***************************************************************************)
(* Discipline B: app.models.State, the tool registry and its inputs        *)
(***************************************************************************)
MAX_STEPS == 10
start_count == 4

\* a line of State.logs
Line(text, node, n) == [text |-> text, node |-> node, n |-> n]

RunningLine(name) == Line("Running node", name, 0)
MaxStepsLine == Line("Maximum steps reached. Workflow terminated.", None, 0)
CompletedLine == Line("Workflow completed successfully.", None, 0)

\* State(): the declared fields with their defaults (texts are tokens);
\* extra keys are allowed and appear in the domain when given
DefaultState ==
    [original_text |-> "", current_summary |-> "", iteration_count |-> 0,
     logs |-> <<>>]

NoUpdates == [k \in {} |-> None]

\* dict.update, and State(**data) over a dump: the keys of u overwrite
Overlay(st, u) == u @@ st

Max(i, j) == IF i >= j THEN i ELSE j

\* the registered tools: merge and refine of app/tools.py, and a tool that
\* returns no updates
Registry == {"merge", "refine", "noop"}

ToolResult(tool, st) ==
    CASE tool = "merge" ->
           [current_summary |-> "merged", iteration_count |-> start_count,
            logs |-> Append(st.logs, Line("Step 3: Merged summaries.", None, 0))]
      [] tool = "refine" ->
           [current_summary |-> "refined",
            iteration_count |-> Max(1, st.iteration_count - 1),
            logs |-> Append(st.logs,
                Line("Step 4: Refined summary",
                     None, Max(1, st.iteration_count - 1)))]
      [] OTHER -> NoUpdates

\* the textual conditions of edges: None, main.py's bounded self-loop test,
\* and an expression over an attribute no State has
LoopCond == "state.iteration_count > 1"
BadCond == "state.missing > 0"

\* eval(condition, {}, {"state": st}) raises
EvalRaises(c, st) == c = BadCond /\ "missing" \notin DOMAIN st

\* the truth of the value eval returns
EvalValue(c, st) ==
    CASE c = LoopCond -> st.iteration_count > 1
      [] OTHER        -> FALSE

\* _get_next_node_name whose eval never finds the name `state` (the locals
\* passed under another name): every evaluation fails and the edge is skipped
RECURSIVE FirstEdgeEvalFails(_, _, _, _)
FirstEdgeEvalFails(es, cur, st, k) ==
    IF k > Len(es) THEN None
    ELSE IF es[k].from_node # cur THEN FirstEdgeEvalFails(es, cur, st, k + 1)
    ELSE IF es[k].condition = None THEN es[k].to_node
    ELSE FirstEdgeEvalFails(es, cur, st, k + 1)

\* _get_next_node_name that keeps overwriting its answer: the last satisfied
\* candidate wins
RECURSIVE LastEdge(_, _, _, _)
LastEdge(es, cur, st, k) ==
    IF k = 0 THEN None
    ELSE IF es[k].from_node # cur THEN LastEdge(es, cur, st, k - 1)
    ELSE IF es[k].condition = None THEN es[k].to_node
    ELSE IF EvalRaises(es[k].condition, st) THEN LastEdge(es, cur, st, k - 1)
    ELSE IF EvalValue(es[k].condition, st) THEN es[k].to_node
    ELSE LastEdge(es, cur, st, k - 1)

\* _get_next_node_name that gives up at the first evaluation failure
RECURSIVE FirstEdgeStopOnError(_, _, _, _)
FirstEdgeStopOnError(es, cur, st, k) ==
    IF k > Len(es) THEN None
    ELSE IF es[k].from_node # cur THEN FirstEdgeStopOnError(es, cur, st, k + 1)
    ELSE IF es[k].condition = None THEN es[k].to_node
    ELSE IF EvalRaises(es[k].condition, st) THEN None
    ELSE IF EvalValue(es[k].condition, st) THEN es[k].to_node
    ELSE FirstEdgeStopOnError(es, cur, st, k + 1)

\* Engine._get_next_node_name: candidates in declaration order
RECURSIVE FirstEdge(_, _, _, _)
FirstEdge(es, cur, st, k) ==
    IF k > Len(es) THEN None
    ELSE IF es[k].from_node # cur THEN FirstEdge(es, cur, st, k + 1)
    ELSE IF es[k].condition = None THEN es[k].to_node
    ELSE IF EvalRaises(es[k].condition, st) THEN FirstEdge(es, cur, st, k + 1)
    ELSE IF EvalValue(es[k].condition, st) THEN es[k].to_node
    ELSE FirstEdge(es, cur, st, k + 1)

get_next_node_name_eval_fails(es, cur, st) == FirstEdgeEvalFails(es, cur, st, 1)
get_next_node_name_last(es, cur, st) == LastEdge(es, cur, st, Len(es))
get_next_node_name_stop_on_error(es, cur, st) ==
    FirstEdgeStopOnError(es, cur, st, 1)

get_next_node_name(es, cur, st) == FirstEdge(es, cur, st, 1)

\* the graphs an Engine is constructed with
NodeNames == {"n1", "n2"}

NodeMaps ==
    { nm \in UNION { [S -> Registry \cup {"unregistered"}] : S \in SUBSET NodeNames } :
        /\ ("n1" \in DOMAIN nm => nm["n1"] \in {"refine", "noop"})
        /\ ("n2" \in DOMAIN nm => nm["n2"] \in {"merge", "unregistered"}) }

EngineEdgeInputs ==
    { Edge("n1", "n1", LoopCond),
      Edge("n1", "n2", None),
      Edge("n2", "n1", None),
      Edge("n1", "n2", BadCond),
      Edge("n2", "ghost", None),
      Edge("n1", "n1", None) }

MaxEngineEdges == 3

RECURSIVE SeqsUpTo(_, _)
SeqsUpTo(S, n) ==
    IF n = 0 THEN {<<>>}
    ELSE LET shorter == SeqsUpTo(S, n - 1)
         IN  shorter \cup { Append(q, e) : q \in shorter, e \in S }

\* initial_input arguments of execute
InitialInputs ==
    { NoUpdates,
      [iteration_count |-> 5],
      [iteration_count |-> 11, note |-> "keep"] }

(***************************************************************************)
(* Engine.__init__, Engine.run_node, Engine.execute                        *)
(***************************************************************************)
InitEngine ==
    /\ node_map \in NodeMaps
    /\ engine_edges \in SeqsUpTo(EngineEdgeInputs, MaxEngineEdges)
    /\ current_state = DefaultState
    /\ current_node_name = None
    /\ steps = 0
    /\ engine_pc = "idle"
    /\ executed = <<>>
    /\ trace = <<>>
    /\ engine_exc = None

\* execute up to the first test of the while loop
engine_execute(start_node_name, initial_input) ==
    /\ EngineStep
    /\ engine_pc = "idle"
    /\ current_state' = Overlay(DefaultState, initial_input)
    /\ current_node_name' = start_node_name
    /\ steps' = 0
    /\ engine_pc' = "loop"
    /\ executed' = <<>>
    /\ trace' = <<>>
    /\ engine_exc' = None
    /\ UNCHANGED <<node_map, engine_edges>>

\* run_node that builds the new State from the updates alone
run_node_replace(st, node_name) ==
    LET logged == [st EXCEPT !.logs = Append(@, RunningLine(node_name))]
        updates == ToolResult(node_map[node_name], logged)
    IN  Overlay(DefaultState, updates)

\* run_node over a State that drops undeclared keys (extra = "ignore")
run_node_drop_extra(st, node_name) ==
    LET logged == [st EXCEPT !.logs = Append(@, RunningLine(node_name))]
        updates == ToolResult(node_map[node_name], logged)
        merged == Overlay(logged, updates)
    IN  IF DOMAIN updates # {}
        THEN [k \in DOMAIN merged \cap DOMAIN DefaultState |-> merged[k]]
        ELSE logged

\* run_node once the node and its tool are found
run_node(st, node_name) ==
    LET logged == [st EXCEPT !.logs = Append(@, RunningLine(node_name))]
        updates == ToolResult(node_map[node_name], logged)
    IN  IF DOMAIN updates # {} THEN Overlay(logged, updates) ELSE logged

\* the walk over the candidates of cur reaches an edge whose eval raises
EvalRaisesFirst(es, cur, st) ==
    \E k \in 1..Len(es) :
        /\ es[k].from_node = cur
        /\ es[k].condition # None
        /\ EvalRaises(es[k].condition, st)
        /\ \A j \in 1..(k - 1) :
               es[j].from_node = cur
                 => /\ es[j].condition # None
                    /\ (EvalRaises(es[j].condition, st)
                          \/ ~EvalValue(es[j].condition, st))

\* engine_step without the try around eval: the error leaves execute
engine_step_eval_propagates ==
    /\ EngineStep
    /\ engine_pc = "loop"
    /\ current_node_name # None
    /\ steps < MAX_STEPS
    /\ IF current_node_name \notin DOMAIN node_map
       THEN /\ engine_exc' = "ValueError: Node not found"
            /\ engine_pc' = "raised"
            /\ UNCHANGED <<current_state, current_node_name, steps, executed,
                         trace>>
       ELSE IF node_map[current_node_name] \notin Registry
       THEN /\ engine_exc' = "ValueError: Tool not found"
            /\ engine_pc' = "raised"
            /\ UNCHANGED <<current_state, current_node_name, steps, executed,
                         trace>>
       ELSE /\ current_state' = run_node(current_state, current_node_name)
            /\ executed' = Append(executed, current_node_name)
            /\ trace' = Append(trace, current_state')
            /\ IF EvalRaisesFirst(engine_edges, current_node_name,
                                  current_state')
               THEN /\ engine_exc' = "AttributeError: missing"
                    /\ engine_pc' = "raised"
                    /\ UNCHANGED <<current_node_name, steps>>
               ELSE /\ current_node_name' =
                           get_next_node_name(engine_edges, current_node_name,
                                              current_state')
                    /\ steps' = steps + 1
                    /\ UNCHANGED <<engine_pc, engine_exc>>
    /\ UNCHANGED <<node_map, engine_edges>>

\* engine_step whose loop test lets an eleventh execution through
engine_step_late_ceiling ==
    /\ EngineStep
    /\ engine_pc = "loop"
    /\ current_node_name # None
    /\ steps <= MAX_STEPS
    /\ IF current_node_name \notin DOMAIN node_map
       THEN /\ engine_exc' = "ValueError: Node not found"
            /\ engine_pc' = "raised"
            /\ UNCHANGED <<current_state, current_node_name, steps, executed,
                         trace>>
       ELSE IF node_map[current_node_name] \notin Registry
       THEN /\ engine_exc' = "ValueError: Tool not found"
            /\ engine_pc' = "raised"
            /\ UNCHANGED <<current_state, current_node_name, steps, executed,
                         trace>>
       ELSE /\ current_state' = run_node(current_state, current_node_name)
            /\ executed' = Append(executed, current_node_name)
            /\ trace' = Append(trace, current_state')
            /\ current_node_name' =
                   get_next_node_name(engine_edges, current_node_name,
                                      current_state')
            /\ steps' = steps + 1
            /\ UNCHANGED <<engine_pc, engine_exc>>
    /\ UNCHANGED <<node_map, engine_edges>>

\* one iteration of the while loop
engine_step ==
    /\ EngineStep
    /\ engine_pc = "loop"
    /\ current_node_name # None
    /\ steps < MAX_STEPS
    /\ IF current_node_name \notin DOMAIN node_map
       THEN /\ engine_exc' = "ValueError: Node not found"
            /\ engine_pc' = "raised"
            /\ UNCHANGED <<current_state, current_node_name, steps, executed,
                         trace>>
       ELSE IF node_map[current_node_name] \notin Registry
       THEN /\ engine_exc' = "ValueError: Tool not found"
            /\ engine_pc' = "raised"
            /\ UNCHANGED <<current_state, current_node_name, steps, executed,
                         trace>>
       ELSE /\ current_state' = run_node(current_state, current_node_name)
            /\ executed' = Append(executed, current_node_name)
            /\ trace' = Append(trace, current_state')
            /\ current_node_name' =
                   get_next_node_name(engine_edges, current_node_name,
                                      current_state')
            /\ steps' = steps + 1
            /\ UNCHANGED <<engine_pc, engine_exc>>
    /\ UNCHANGED <<node_map, engine_edges>>

\* engine_finish with the ceiling test off by one: steps > MAX_STEPS
engine_finish_gt ==
    /\ EngineStep
    /\ engine_pc = "loop"
    /\ ~(current_node_name # None /\ steps < MAX_STEPS)
    /\ current_state' =
           [current_state EXCEPT !.logs =
               Append(@, IF steps > MAX_STEPS THEN MaxStepsLine
                         ELSE CompletedLine)]
    /\ engine_pc' = "done"
    /\ UNCHANGED <<node_map, engine_edges, current_node_name, steps, executed,
                   trace, engine_exc>>

\* engine_finish that returns the dump without an outcome line
engine_finish_silent ==
    /\ EngineStep
    /\ engine_pc = "loop"
    /\ ~(current_node_name # None /\ steps < MAX_STEPS)
    /\ engine_pc' = "done"
    /\ UNCHANGED <<node_map, engine_edges, current_state, current_node_name,
                   steps, executed, trace, engine_exc>>

\* the loop is over: the outcome line and the return
engine_finish ==
    /\ EngineStep
    /\ engine_pc = "loop"
    /\ ~(current_node_name # None /\ steps < MAX_STEPS)
    /\ current_state' =
           [current_state EXCEPT !.logs =
               Append(@, IF steps >= MAX_STEPS THEN MaxStepsLine
                         ELSE CompletedLine)]
    /\ engine_pc' = "done"
    /\ UNCHANGED <<node_map, engine_edges, current_node_name, steps, executed,
                   trace, engine_exc>>

\* start_node_name arguments of execute: a node name, or no name (None, "")
StartNames == NodeNames \cup {None}

EngineExecute ==
    \E s \in StartNames, i \in InitialInputs : engine_execute(s, i)

(***************************************************************************)
(* app/main.py: run_workflow and the background task _run_workflow_task    *)
(***************************************************************************)
ServiceStep == discipline = "S" /\ UNCHANGED <<discipline, varsA, varsB>>

MaxRuns == 2

\* run ids (uuid4 values), in the order run_workflow draws them
RunIds == 1..MaxRuns

Graph(ns, es, start) == [nodes |-> ns, edges |-> es, start_node |-> start]

\* the graphs in GRAPHS: the merge and refine end of the seeded graph with
\* its bounded self-loop, a graph whose edge leads to a name that is no
\* node, a graph that loops until the ceiling, a graph whose second node
\* names a tool that is not registered, and a graph whose start node is no
\* node (create_graph stores what it is sent)
StoredGraphs ==
    [g1 |-> Graph([n2 |-> "merge", n1 |-> "refine"],
                  <<Edge("n2", "n1", None), Edge("n1", "n1", LoopCond)>>, "n2"),
     g2 |-> Graph([n1 |-> "noop"], <<Edge("n1", "n2", None)>>, "n1"),
     g3 |-> Graph([n1 |-> "refine"], <<Edge("n1", "n1", None)>>, "n1"),
     g4 |-> Graph([n1 |-> "merge", n2 |-> "translate"],
                  <<Edge("n1", "n2", None)>>, "n1"),
     g5 |-> Graph([n1 |-> "noop"], <<>>, "n2")]

\* graph ids a request may name
GraphIdInputs == {"g1", "g2", "g3", "g4", "g5", "unknown"}

\* Python's None where a State dump may stand
NullState == [k \in {} |-> None]

RunRecord(st, state_dump, err) ==
    [status |-> st, state |-> state_dump, error |-> err]

NoRun == RunRecord("absent", NullState, None)

NoTask ==
    [pc |-> "none", graph |-> Graph(NullState, <<>>, None), init |-> NullState,
     state |-> NullState, cur |-> None, steps |-> 0, exc |-> None]

InitService ==
    /\ GRAPHS = StoredGraphs
    /\ RUNS = [r \in RunIds |-> NoRun]
    /\ tasks = [r \in RunIds |-> NoTask]
    /\ response = None

\* no service is running while a Workflow or an Engine is driven directly
NoService ==
    /\ GRAPHS = NullState
    /\ RUNS = [r \in RunIds |-> NoRun]
    /\ tasks = [r \in RunIds |-> NoTask]
    /\ response = None

\* POST /graph/run
run_workflow(graph_id, initial_state) ==
    /\ ServiceStep
    /\ IF graph_id \notin DOMAIN GRAPHS
       THEN /\ response' = "404 Graph ID not found"
            /\ UNCHANGED <<GRAPHS, RUNS, tasks>>
       ELSE \E run_id \in RunIds :
              /\ RUNS[run_id] = NoRun
              /\ \A q \in RunIds : q < run_id => RUNS[q] # NoRun
              /\ RUNS' = [RUNS EXCEPT
                            ![run_id] = RunRecord("RUNNING", NullState, None)]
              /\ tasks' = [tasks EXCEPT
                            ![run_id] = [NoTask EXCEPT
                                            !.pc = "queued",
                                            !.graph = GRAPHS[graph_id],
                                            !.init = initial_state]]
              /\ response' = "QUEUED"
              /\ UNCHANGED GRAPHS

\* the task starts: Engine(...), then execute up to the first loop test
task_begin(r) ==
    /\ ServiceStep
    /\ tasks[r].pc = "queued"
    /\ tasks' = [tasks EXCEPT
                   ![r] = [@ EXCEPT
                             !.pc = "loop",
                             !.state = Overlay(DefaultState, tasks[r].init),
                             !.cur = tasks[r].graph.start_node,
                             !.steps = 0]]
    /\ UNCHANGED <<GRAPHS, RUNS, response>>

\* Engine.run_node of the task's own Engine, the node and its tool found
task_run_node(g, st, node_name) ==
    LET logged == [st EXCEPT !.logs = Append(@, RunningLine(node_name))]
        updates == ToolResult(g.nodes[node_name], logged)
    IN  IF DOMAIN updates # {} THEN Overlay(logged, updates) ELSE logged

\* task_step with the State held by the Engine class, not by the instance:
\* the Engines of all running tasks read and write the same State
task_step_shared_state(r) ==
    LET t == tasks[r] IN
    /\ ServiceStep
    /\ t.pc = "loop"
    /\ t.cur # None
    /\ t.steps < MAX_STEPS
    /\ tasks' =
         IF t.cur \notin DOMAIN t.graph.nodes
         THEN [tasks EXCEPT ![r] = [t EXCEPT !.pc = "raised",
                                             !.exc = "Node not found"]]
         ELSE IF t.graph.nodes[t.cur] \notin Registry
         THEN [tasks EXCEPT ![r] = [t EXCEPT !.pc = "raised",
                                             !.exc = "Tool not found"]]
         ELSE LET st == task_run_node(t.graph, t.state, t.cur)
              IN  [q \in RunIds |->
                     IF q = r
                     THEN [t EXCEPT
                             !.state = st,
                             !.cur = get_next_node_name(t.graph.edges, t.cur, st),
                             !.steps = @ + 1]
                     ELSE IF tasks[q].pc = "loop"
                     THEN [tasks[q] EXCEPT !.state = st]
                     ELSE tasks[q]]
    /\ UNCHANGED <<GRAPHS, RUNS, response>>

\* one iteration of the while loop of the task's Engine
task_step(r) ==
    LET t == tasks[r] IN
    /\ ServiceStep
    /\ t.pc = "loop"
    /\ t.cur # None
    /\ t.steps < MAX_STEPS
    /\ tasks' =
         [tasks EXCEPT ![r] =
            IF t.cur \notin DOMAIN t.graph.nodes
            THEN [t EXCEPT !.pc = "raised", !.exc = "Node not found"]
            ELSE IF t.graph.nodes[t.cur] \notin Registry
            THEN [t EXCEPT !.pc = "raised", !.exc = "Tool not found"]
            ELSE LET st == task_run_node(t.graph, t.state, t.cur)
                 IN  [t EXCEPT
                        !.state = st,
                        !.cur = get_next_node_name(t.graph.edges, t.cur, st),
                        !.steps = @ + 1]]
    /\ UNCHANGED <<GRAPHS, RUNS, response>>

\* the loop of the task's Engine is over: the outcome line, execute returns
task_return(r) ==
    LET t == tasks[r] IN
    /\ ServiceStep
    /\ t.pc = "loop"
    /\ ~(t.cur # None /\ t.steps < MAX_STEPS)
    /\ tasks' =
         [tasks EXCEPT ![r] =
            [t EXCEPT
               !.pc = "returned",
               !.state = [t.state EXCEPT !.logs =
                            Append(@, IF t.steps >= MAX_STEPS THEN MaxStepsLine
                                      ELSE CompletedLine)]]]
    /\ UNCHANGED <<GRAPHS, RUNS, response>>

\* RUNS[run_id]["status"] = "COMPLETED", or "FAILED" in the except branch
task_record_status(r) ==
    /\ ServiceStep
    /\ tasks[r].pc \in {"returned", "raised"}
    /\ RUNS' = [RUNS EXCEPT
                  ![r].status = IF tasks[r].pc = "returned" THEN "COMPLETED"
                                ELSE "FAILED"]
    /\ tasks' = [tasks EXCEPT
                   ![r].pc = IF tasks[r].pc = "returned" THEN "completed_set"
                             ELSE "failed_set"]
    /\ UNCHANGED <<GRAPHS, response>>

\* RUNS[run_id]["state"] = final_state, or RUNS[run_id]["error"] = str(e)
task_record_result(r) ==
    /\ ServiceStep
    /\ tasks[r].pc \in {"completed_set", "failed_set"}
    /\ RUNS' = IF tasks[r].pc = "completed_set"
               THEN [RUNS EXCEPT ![r].state = tasks[r].state]
               ELSE [RUNS EXCEPT ![r].error = tasks[r].exc]
    /\ tasks' = [tasks EXCEPT ![r].pc = "done"]
    /\ UNCHANGED <<GRAPHS, response>>

RunWorkflow ==
    \E g \in GraphIdInputs, i \in InitialInputs : run_workflow(g, i)

TaskBegin == \E r \in RunIds : task_begin(r)
TaskStep == \E r \in RunIds : task_step(r)
TaskReturn == \E r \in RunIds : task_return(r)
TaskRecordStatus == \E r \in RunIds : task_record_status(r)
TaskRecordResult == \E r \in RunIds : task_record_result(r)

(***************************************************************************)
(* Specifications                                                          *)
(***************************************************************************)
\* the Engine before any is constructed, while the Workflow is driven
NoEngine ==
    /\ node_map = NoUpdates
    /\ engine_edges = <<>>
    /\ current_state = DefaultState
    /\ current_node_name = None
    /\ steps = 0
    /\ engine_pc = "idle"
    /\ executed = <<>>
    /\ trace = <<>>
    /\ engine_exc = None

InitA == discipline = "A" /\ InitWorkflow /\ NoEngine /\ NoService
InitB == discipline = "B" /\ InitWorkflow /\ InitEngine /\ NoService
InitS == discipline = "S" /\ InitWorkflow /\ NoEngine /\ InitService

Init == InitA \/ InitB

NextA ==
    \/ AddNode
    \/ AddEdge
    \/ SetEntryPoint
    \/ AddEndNode
    \/ execute_no_entry
    \/ ExecuteStart
    \/ for_skip
    \/ node_call
    \/ node_finish
    \/ for_end

NextB ==
    \/ EngineExecute
    \/ engine_step
    \/ engine_finish

Next == NextA \/ NextB

NextS ==
    \/ RunWorkflow
    \/ TaskBegin
    \/ TaskStep
    \/ TaskReturn
    \/ TaskRecordStatus
    \/ TaskRecordResult

SpecS == InitS /\ [][NextS]_vars

SpecA == InitA /\ [][NextA]_vars
SpecB == InitB /\ [][NextB]_vars

\* execute is a synchronous loop: once called it keeps taking its next step,
\* every node function and predicate call returning or raising
RunStep == for_skip \/ node_call \/ node_finish \/ for_end
LiveSpecA == SpecA /\ WF_vars(RunStep)

\* Engine.execute is a synchronous loop as well: it keeps taking its next step
EngineRunStep == engine_step \/ engine_finish
LiveSpecB == SpecB /\ WF_vars(EngineRunStep)
Spec == Init /\ [][Next]_vars

(***************************************************************************)
(* Properties of Discipline A                                              *)
(***************************************************************************)
HistoryIds == [k \in 1..Len(execution_history) |-> execution_history[k].node_id]

HistoryCount(n) ==
    Cardinality({k \in 1..Len(execution_history) :
                    execution_history[k].node_id = n})

\* C1: when a node's operation raises during a run (Node.execute turns the
\* node from running to failed), the run is over with workflow status failed,
\* the history gains an entry with that node's id, status failed and the
\* error text, and the same error reaches the caller of execute.
C1_NodeFailureRecorded ==
    [][\A n \in NodeIds :
         (node_status[n] = "running" /\ node_status'[n] = "failed")
           => /\ status' = "failed"
              /\ pc' = "idle"
              /\ exc' # None
              /\ exc' = node_error'[n]
              /\ execution_history' =
                     Append(execution_history, Entry(n, "failed", exc'))]_vars

\* a run in which the second node raised after the first completed
C1_Witness ==
    /\ pc = "idle"
    /\ status = "failed"
    /\ exc = NodeError
    /\ Len(execution_history) = 2
    /\ execution_history[1].status = "completed"
    /\ execution_history[2].status = "failed"
    /\ node_status[execution_history[2].node_id] = "failed"

\* C2: in every run, over every graph and initial state, each node's function
\* is called at most once and logged at most once; a frontier position whose
\* node id is already visited is passed over without a call, a history entry
\* or a change of state.
C2_AtMostOncePerRun ==
    /\ [](\A n \in NodeIds : invoked[n] <= 1 /\ HistoryCount(n) <= 1)
    /\ [][(pc = "for" /\ idx <= Len(current_nodes)
              /\ current_nodes[idx] \in visited)
            => /\ invoked' = invoked
               /\ execution_history' = execution_history
               /\ state' = state
               /\ node_status' = node_status
               /\ next_nodes' = next_nodes
               /\ idx' = idx + 1]_vars

\* a cycle or self-loop has brought an executed node back into the frontier
C2_Witness ==
    /\ pc = "for"
    /\ idx <= Len(current_nodes)
    /\ current_nodes[idx] \in visited
    /\ invoked[current_nodes[idx]] = 1
    /\ \E k \in 1..Len(edges) : edges[k].to_node = current_nodes[idx]
                                /\ edges[k].from_node \in visited

\* C3: every run terminates: once execute has started, it ends with status
\* completed or failed, whatever cycles and self-loops the edges form.
C3_RunTerminates ==
    (status = "running") ~> (pc = "idle" /\ status \in {"completed", "failed"})

\* a run over a cycle with an always-true self-loop has completed
C3_Witness ==
    /\ pc = "idle"
    /\ status = "completed"
    /\ \E k \in 1..Len(edges) :
         edges[k].from_node = edges[k].to_node /\ edges[k].condition = None
           /\ HistoryCount(edges[k].from_node) = 1
    /\ \E k \in 1..Len(edges) :
         edges[k].from_node # edges[k].to_node
           /\ HistoryCount(edges[k].from_node) = 1
           /\ HistoryCount(edges[k].to_node) = 1
           /\ \E j \in 1..Len(edges) : edges[j].from_node = edges[k].to_node
                                        /\ edges[j].to_node = edges[k].from_node

\* the graph of examples.py's simple workflow: a -> b -> c, terminal c
IsChain ==
    /\ nodes = {"a", "b", "c"}
    /\ start_node = "a"
    /\ end_nodes = <<"c">>
    /\ Len(edges) = 2
    /\ {edges[1], edges[2]} = {Edge("a", "b", None), Edge("b", "c", None)}

Prefix(s, t) == Len(s) <= Len(t) /\ \A k \in 1..Len(s) : s[k] = t[k]

\* C7: on the chain a -> b -> c with terminal c, from any initial state (the
\* empty one included), the nodes are attempted in chain order, one history
\* entry each, and a run whose functions all return completes with exactly
\* the three entries a, b, c, each function called once.
C7_ChainInOrder ==
    /\ []((IsChain /\ pc # "idle")
            => /\ Prefix(HistoryIds, <<"a", "b", "c">>)
               /\ \A n \in NodeIds :
                    invoked[n] = IF n \in visited THEN 1 ELSE 0)
    /\ [][(IsChain /\ status = "running" /\ status' = "completed")
            => /\ execution_history' =
                     <<Entry("a", "completed", None),
                       Entry("b", "completed", None),
                       Entry("c", "completed", None)>>
               /\ invoked' = [n \in NodeIds |-> 1]]_vars

\* the chain has run to completion from the empty state
C7_Witness ==
    /\ pc = "idle"
    /\ IsChain
    /\ status = "completed"
    /\ HistoryIds = <<"a", "b", "c">>
    /\ invoked = [n \in NodeIds |-> 1]
    /\ state = EmptyDict

\* the condition callable returns a true value on this dict
EdgeHolds(e, st) ==
    \/ e.condition = None
    \/ ~ConditionRaises(e.condition, st) /\ ConditionValue(e.condition, st)

\* C8: when a non-terminal node has been executed, every destination of an
\* outgoing edge satisfied in the state it produced (so both X and Y of two
\* such edges) is in the frontier being collected, which becomes the next
\* frontier; and no node is executed more than once in the run.
C8_AllSatisfiedSuccessors ==
    /\ [][\A n \in NodeIds :
            (pc = "call" /\ current_nodes[idx] = n /\ pc' = "for"
                /\ ~InList(n, end_nodes))
              => \A k \in 1..Len(edges) :
                   (edges[k].from_node = n /\ EdgeHolds(edges[k], state'))
                     => InList(edges[k].to_node, next_nodes')]_vars
    /\ [][(pc = "for" /\ pc' = "for" /\ idx > Len(current_nodes))
            => current_nodes' = next_nodes]_vars
    /\ [](\A n \in NodeIds : invoked[n] <= 1)

\* a's two satisfied edges put b and c in the frontier; c, reached again
\* through b -> c, is back in the frontier after it was executed
C8_Witness ==
    /\ pc = "for"
    /\ HistoryIds = <<"a", "b", "c">>
    /\ idx <= Len(current_nodes)
    /\ current_nodes[idx] = "c"
    /\ "c" \in visited
    /\ invoked["c"] = 1
    /\ InList(Edge("a", "b", None), edges)
    /\ InList(Edge("a", "c", "key_exists"), edges)
    /\ InList(Edge("b", "c", None), edges)

\* C10: add_edge with a source or destination id that is not in the node set
\* raises and leaves the edge list as it was.
C10_AddEdgeUnknownNode ==
    [][\A e \in EdgeInputs :
         (add_edge(e) /\ (e.from_node \notin nodes \/ e.to_node \notin nodes))
           => /\ edges' = edges
              /\ exc' \in {"ValueError: Source node not found",
                           "ValueError: Target node not found"}]_vars

\* add_edge has just failed on an unknown destination, edges already present
C10_Witness ==
    /\ exc = "ValueError: Target node not found"
    /\ edges # <<>>
    /\ nodes # NodeIds

\* C11: set_entry_point and add_end_node with an id that is not in the node
\* set raise and leave the start node, the terminal list, the node set and
\* the edge list as they were.
C11_UnknownEntryOrEnd ==
    [][/\ \A n \in NodeIds :
            (set_entry_point(n) /\ n \notin nodes)
              => /\ exc' = "ValueError: Node not found"
                 /\ UNCHANGED <<start_node, end_nodes, nodes, edges>>
       /\ \A n \in EndInputs :
            (add_end_node(n) /\ n \notin nodes)
              => /\ exc' = "ValueError: Node not found"
                 /\ UNCHANGED <<start_node, end_nodes, nodes, edges>>]_vars

\* a call with the unknown id c has just failed on a configured workflow
C11_Witness ==
    /\ exc = "ValueError: Node not found"
    /\ "c" \notin nodes
    /\ start_node = "a"
    /\ edges # <<>>
    /\ end_nodes = <<>>

\* the call of n's function is under way
InFlight(n) == IF pc = "call" /\ current_nodes[idx] = n THEN 1 ELSE 0

\* C13: the history holds one entry per call of a node function that has
\* returned or raised in this run, no more and no fewer; the entry of an
\* attempt is appended at the end, with the attempt's outcome, when the
\* attempt ends and before the next one begins, and no other step of the run
\* touches the history.
C13_OneEntryPerAttempt ==
    /\ [](\A n \in NodeIds : HistoryCount(n) = invoked[n] - InFlight(n))
    /\ [][/\ pc = "call"
            => \E s \in {"completed", "failed"} :
                 /\ node_status'[current_nodes[idx]] = s
                 /\ execution_history' =
                      Append(execution_history,
                             Entry(current_nodes[idx], s,
                                   IF s = "failed" THEN NodeError ELSE None))
          /\ pc = "for" => execution_history' = execution_history
          /\ pc = "idle"
            => \/ execution_history' = execution_history
               \/ execution_history' = <<>> /\ pc' = "for"]_vars

\* three attempts, the third failed, after a terminal-free run a, b, c
C13_Witness ==
    /\ pc = "idle"
    /\ HistoryIds = <<"a", "b", "c">>
    /\ execution_history[2].status = "completed"
    /\ execution_history[3].status = "failed"
    /\ invoked = [n \in NodeIds |-> 1]

\* C14: every execute that has a start node leaves, before its first node
\* runs, all node statuses pending, all node errors cleared and the history
\* empty; so a node not attempted in the latest run shows no status, error or
\* history entry of an earlier run, however that run ended.
C14_FreshRunRecord ==
    /\ [][(pc = "idle" /\ pc' = "for")
            => /\ node_status' = [n \in NodeIds |-> "pending"]
               /\ node_error' = [n \in NodeIds |-> None]
               /\ execution_history' = <<>>]_vars
    /\ [](\A n \in NodeIds :
            invoked[n] = 0
              => /\ node_status[n] = "pending"
                 /\ node_error[n] = None
                 /\ HistoryCount(n) = 0)

\* a run begun after a failed run has completed: no failed node, no failed
\* entry, and a node left out of this run is pending
C14_Witness ==
    /\ pc = "idle"
    /\ prior_status = "failed"
    /\ status = "completed"
    /\ execution_history # <<>>
    /\ \A k \in 1..Len(execution_history) :
         execution_history[k].status = "completed"
    /\ \A n \in NodeIds : node_status[n] # "failed" /\ node_error[n] = None
    /\ \E n \in nodes : invoked[n] = 0

\* C15: when a declared terminal node has been executed the loop goes on to
\* the next id of the frontier: no predicate of its outgoing edges is called
\* (one that would raise does not fail the run) and no destination is added
\* to the frontier being collected, even when an outgoing edge exists and
\* would be satisfied.
C15_TerminalSeeksNoSuccessor ==
    [][\A n \in NodeIds :
         (pc = "call" /\ current_nodes[idx] = n /\ InList(n, end_nodes)
             /\ node_status'[n] = "completed")
           => /\ next_nodes' = next_nodes
              /\ pc' = "for"
              /\ idx' = idx + 1
              /\ status' = "running"
              /\ exc' = exc]_vars

\* terminal c has just run; its edge to the unvisited a is satisfied, yet a is
\* not in the frontier being collected
C15_Witness ==
    /\ pc = "for"
    /\ execution_history # <<>>
    /\ execution_history[Len(execution_history)] = Entry("c", "completed", None)
    /\ InList("c", end_nodes)
    /\ \E k \in 1..Len(edges) :
         /\ edges[k] = Edge("c", "a", "subscript")
         /\ EdgeHolds(edges[k], state)
    /\ "a" \in nodes \ visited
    /\ next_nodes = <<>>

\* the positions of the edges leaving cur whose predicate holds on st
SatisfiedIdx(cur, st) ==
    {k \in 1..Len(edges) : edges[k].from_node = cur /\ EdgeHolds(edges[k], st)}

\* r lists the destinations of those edges, one per edge, in declaration order
ListsSatisfied(r, cur, st) ==
    /\ Len(r) = Cardinality(SatisfiedIdx(cur, st))
    /\ \A k \in SatisfiedIdx(cur, st) :
         r[Cardinality({j \in SatisfiedIdx(cur, st) : j <= k})]
           = edges[k].to_node

\* C16: get_next_nodes(current_id), whenever no predicate raises, returns the
\* destinations of the edges whose source is current_id and whose predicate
\* is satisfied in the current state (or absent), one entry per such edge,
\* in declaration order; the run extends its next frontier by that list.
C16_NextNodesInOrder ==
    /\ [](\A cur \in NodeIds :
            ~get_next_nodes_raises(edges, state, cur)
              => ListsSatisfied(get_next_nodes(edges, state, cur), cur, state))
    /\ [][\A n \in NodeIds :
            (pc = "call" /\ current_nodes[idx] = n /\ pc' = "for"
                /\ ~InList(n, end_nodes))
              => /\ Len(next_nodes') >= Len(next_nodes)
                 /\ SubSeq(next_nodes', 1, Len(next_nodes)) = next_nodes
                 /\ ListsSatisfied(
                        SubSeq(next_nodes', Len(next_nodes) + 1,
                               Len(next_nodes')), n, state')]_vars

\* a has run with its edge to b declared twice and its conditional edge to c
\* not satisfied: b is listed twice, c not at all
C16_Witness ==
    /\ pc = "for"
    /\ HistoryIds = <<"a">>
    /\ edges = <<Edge("a", "b", None), Edge("a", "c", "key_exists"),
                 Edge("a", "b", None)>>
    /\ state = EmptyDict
    /\ next_nodes = <<"b", "b">>

\* C19: the step in which a node raises leaves the state as the nodes
\* completed before it left it, and so does every call made after the failed
\* run until the next run begins; nothing is rolled back.
C19_NoRollback ==
    /\ [][(pc = "call" /\ node_status'[current_nodes[idx]] = "failed")
            => (state' = state /\ status' = "failed")]_vars
    /\ [][(pc = "idle" /\ pc' = "idle") => state' = state]_vars

\* b raised after a completed and set x: the failed run's state still has it
C19_Witness ==
    /\ pc = "idle"
    /\ status = "failed"
    /\ exc = NodeError
    /\ Len(execution_history) = 2
    /\ execution_history[1].status = "completed"
    /\ execution_history[2].status = "failed"
    /\ state["x"] = "v1"

\* the frontier and the one being collected are both exhausted
FrontierExhausted ==
    pc = "for" /\ idx > Len(current_nodes) /\ next_nodes = <<>>

\* the parts of C20 that do not concern the status failed
LifecycleButFailed ==
    /\ [](status = "created" <=> prior_status = None)
    /\ [](status = "running" <=> pc # "idle")
    /\ [][status' # status
            => <<status, status'>> \in
                 {<<"created", "running">>, <<"completed", "running">>,
                  <<"failed", "running">>, <<"running", "completed">>,
                  <<"running", "failed">>}]_vars
    /\ [][(status # "completed" /\ status' = "completed")
            <=> FrontierExhausted]_vars
    /\ [][FrontierExhausted => exc' = None]_vars

\* C20 as stated: the lifecycle, the status becoming failed exactly in the
\* steps in which a node raises.
C20_Original ==
    /\ LifecycleButFailed
    /\ [][(status' = "failed" /\ pc # "idle")
            <=> (pc = "call" /\ node_status'[current_nodes[idx]] = "failed")]_vars

\* C20 amended: created until the first execute that has a start node, running
\* from then until the execute ends, completed exactly when the frontier is
\* exhausted without an exception, failed exactly when a node function or an
\* edge predicate raised during the run.
C20_StatusLifecycle ==
    /\ LifecycleButFailed
    /\ [][(status' = "failed" /\ pc # "idle")
            <=> (pc = "call" /\ exc' \in {NodeError, PredicateError})]_vars
    /\ [][(pc = "call" /\ exc' = NodeError)
            <=> (pc = "call" /\ node_status'[current_nodes[idx]] = "failed")]_vars

\* a run begun after a completed run has failed on an edge predicate, every
\* node it ran having completed
C20_Witness ==
    /\ pc = "idle"
    /\ status = "failed"
    /\ prior_status = "completed"
    /\ exc = PredicateError
    /\ execution_history # <<>>
    /\ \A k \in 1..Len(execution_history) :
         execution_history[k].status = "completed"

\* ---------------------------------------------------------------------
\* Node.execute
\* ---------------------------------------------------------------------

ReturnValues(st) == {o.value : o \in {f \in FunctionOutcomes(st) : f.kind = "return"}}

\* C24: Node.execute moves the node from pending to running before the
\* function is called with the current state; when the function returns the
\* node is completed and the returned value is the result; when it raises the
\* node is failed, the message is recorded on the node and the same failure
\* reaches the caller; no node is running once execute has returned or raised.
C24_NodeExecute ==
    /\ [][(pc = "for" /\ pc' = "call")
            => (/\ node_status[current_nodes[idx]] = "pending"
                /\ node_status'[current_nodes[idx]] = "running"
                /\ state' = state)]_vars
    /\ [][(pc = "call" /\ pc' # "call")
            => (\/ /\ node_status'[current_nodes[idx]] = "completed"
                   /\ node_error'[current_nodes[idx]] = None
                   /\ state' \in ReturnValues(state)
                \/ /\ node_status'[current_nodes[idx]] = "failed"
                   /\ node_error'[current_nodes[idx]] = NodeError
                   /\ exc' = NodeError
                   /\ state' = state)]_vars
    /\ [](\A n \in NodeIds :
            node_status[n] = "running" <=> (pc = "call" /\ n = current_nodes[idx]))

C24_Witness ==
    /\ discipline = "A"
    /\ pc = "idle"
    /\ exc = NodeError
    /\ node_status["a"] = "completed"
    /\ node_status["b"] = "failed"
    /\ node_error["b"] = NodeError
    /\ node_status["c"] = "pending"
    /\ state["x"] = "v1"


\* C22: whatever calls were made on the Workflow, failing ones included,
\* every edge of the edge list joins two ids of the node set, the start node
\* if set is in the node set, and so is every terminal id.
C22_TopologyWellFormed ==
    /\ \A k \in 1..Len(edges) :
         edges[k].from_node \in nodes /\ edges[k].to_node \in nodes
    /\ start_node # None => start_node \in nodes
    /\ \A k \in 1..Len(end_nodes) : end_nodes[k] \in nodes

\* an add_edge with an unknown source has just failed on a workflow that has
\* edges, an entry point, a terminal node and a failed run behind it
C22_Witness ==
    /\ exc = "ValueError: Source node not found"
    /\ edges # <<>>
    /\ start_node # None
    /\ end_nodes # <<>>
    /\ status = "failed"

(***************************************************************************)
(* Properties of Discipline B                                              *)
(***************************************************************************)
RunEnded == engine_pc \in {"done", "raised"}

\* the edge is unconditional, or its condition evaluates to a true value
EdgeSatisfied(e, st) ==
    \/ e.condition = None
    \/ ~EvalRaises(e.condition, st) /\ EvalValue(e.condition, st)

SatisfiedFrom(n, st) ==
    {k \in 1..Len(engine_edges) :
        engine_edges[k].from_node = n /\ EdgeSatisfied(engine_edges[k], st)}

\* after every node execution so far some outgoing edge was satisfied
AlwaysSatisfied ==
    \A i \in 1..Len(executed) : SatisfiedFrom(executed[i], trace[i]) # {}

\* run_node finds the node and its tool
Runnable(name) == name \in DOMAIN node_map /\ node_map[name] \in Registry

LastLog == current_state.logs[Len(current_state.logs)]

CeilingOutcome ==
    /\ engine_pc = "done"
    /\ Len(executed) = MAX_STEPS
    /\ steps = MAX_STEPS
    /\ engine_exc = None
    /\ LastLog = MaxStepsLine

ExecCount(n) == Cardinality({i \in 1..Len(executed) : executed[i] = n})

\* the position in the run of the j-th execution of n
NthExec(n, j) ==
    CHOOSE i \in 1..Len(executed) :
        executed[i] = n /\ Cardinality({m \in 1..i : executed[m] = n}) = j

\* the only edge leaving n is a conditional self-loop
OnlySelfLoop(n) ==
    \E k \in 1..Len(engine_edges) :
        /\ engine_edges[k] \in {Edge(n, n, LoopCond), Edge(n, n, BadCond)}
        /\ \A j \in 1..Len(engine_edges) :
               engine_edges[j].from_node = n => j = k

SelfLoopOf(n) ==
    engine_edges[CHOOSE k \in 1..Len(engine_edges) :
                     engine_edges[k].from_node = n]

TrueAfter(n, j) == EdgeSatisfied(SelfLoopOf(n), trace[NthExec(n, j)])

Min(i, j) == IF i <= j THEN i ELSE j

\* the self-loop predicate of n was true after each of its first 3
\* executions, as far as they happened, and false after the 4th
TrueForThree(n) ==
    /\ ExecCount(n) >= 1
    /\ \A j \in 1..Min(ExecCount(n), 3) : TrueAfter(n, j)
    /\ ExecCount(n) >= 4 => ~TrueAfter(n, 4)

\* C5: a node whose only outgoing edge is a self-loop whose predicate is true
\* after exactly its first 3 executions is executed exactly 4 times, after
\* which the run ends with no current node, the ceiling not being reached.
C5_BoundedSelfLoop ==
    (engine_pc = "done" /\ steps < MAX_STEPS)
      => \A n \in NodeNames :
           (OnlySelfLoop(n) /\ TrueForThree(n))
             => /\ ExecCount(n) = 4
                /\ executed[Len(executed)] = n
                /\ current_node_name = None
                /\ LastLog = CompletedLine

\* refine from iteration_count 5 under main.py's loop condition: 4 runs
C5_Witness ==
    /\ engine_pc = "done"
    /\ OnlySelfLoop("n1")
    /\ TrueForThree("n1")
    /\ executed = <<"n1", "n1", "n1", "n1">>
    /\ current_state.iteration_count = 1
    /\ current_node_name = None

\* C6: when two or more edges leaving the executed node are satisfied in the
\* state it produced, the next node is the destination of the first declared
\* of them, wherever the edges of other sources stand in the list.
C6_FirstDeclaredWins ==
    (engine_pc = "loop" /\ executed # <<>>)
      => LET n == executed[Len(executed)]
             sat == SatisfiedFrom(n, current_state)
         IN  Cardinality(sat) >= 2
               => \E k \in sat :
                    /\ \A j \in sat : k <= j
                    /\ current_node_name = engine_edges[k].to_node

\* two satisfied edges to different nodes, declared after an unrelated edge
C6_Witness ==
    /\ engine_pc = "loop"
    /\ executed # <<>>
    /\ LET n == executed[Len(executed)]
           sat == SatisfiedFrom(n, current_state)
       IN  /\ \E j, k \in sat : /\ j < k
                                 /\ engine_edges[j].to_node # engine_edges[k].to_node
                                 /\ current_node_name = engine_edges[j].to_node
           /\ engine_edges[1].from_node # n

\* C18: when the walk over the edges of the node just executed reaches an
\* edge whose condition fails to evaluate, the next node is the destination
\* of the first later-declared edge of that node that is unconditional or
\* satisfied, and there is no next node if no later edge is.
C18_FailedEvalSkipsEdge ==
    (engine_pc \in {"loop", "done"} /\ executed # <<>>)
      => LET n == executed[Len(executed)]
             st == trace[Len(trace)]
         IN  \A k \in 1..Len(engine_edges) :
               (/\ engine_edges[k].from_node = n
                /\ engine_edges[k].condition # None
                /\ EvalRaises(engine_edges[k].condition, st)
                /\ \A j \in SatisfiedFrom(n, st) : j > k)
                 => IF SatisfiedFrom(n, st) = {}
                    THEN current_node_name = None
                    ELSE \E j \in SatisfiedFrom(n, st) :
                           /\ \A i \in SatisfiedFrom(n, st) : j <= i
                           /\ current_node_name = engine_edges[j].to_node

\* n1's first edge fails to evaluate, its second is false, its third is
\* unconditional and is taken
C18_Witness ==
    /\ engine_pc = "loop"
    /\ executed = <<"n1">>
    /\ engine_edges = <<Edge("n1", "n2", BadCond), Edge("n1", "n1", LoopCond),
                        Edge("n1", "n2", None)>>
    /\ current_state.iteration_count <= 1
    /\ current_node_name = "n2"

(***************************************************************************)
(* Properties of both disciplines                                          *)
(***************************************************************************)
\* the node just executed by engine_step had a tool that returned {}
ReturnedNoUpdates ==
    /\ engine_pc = "loop"
    /\ executed' = Append(executed, current_node_name)
    /\ ToolResult(node_map[current_node_name],
                  [current_state EXCEPT
                      !.logs = Append(@, RunningLine(current_node_name))])
         = NoUpdates

\* C9 as stated, for both disciplines (the engine's own "Running node" line
\* set aside): a node whose operation returns {} leaves every key the state
\* had present with its previous value.
C9_Original ==
    [][/\ \A n \in NodeIds :
            (node_status[n] = "running" /\ node_status'[n] = "completed"
                /\ state' = EmptyDict)
              => \A k \in Keys : state[k] # Absent => state'[k] = state[k]
       /\ ReturnedNoUpdates
            => \A k \in DOMAIN current_state \ {"logs"} :
                 k \in DOMAIN current_state'
                   /\ current_state'[k] = current_state[k]]_vars

\* C9 amended: in Discipline B a node whose tool returns {} leaves every key
\* of the State present with its previous value, logs gaining only the
\* engine's "Running node" line.
C9_NoUpdatesKeepsState ==
    [][ReturnedNoUpdates
         => /\ DOMAIN current_state' = DOMAIN current_state
            /\ \A k \in DOMAIN current_state \ {"logs"} :
                 current_state'[k] = current_state[k]
            /\ current_state'.logs =
                 Append(current_state.logs, RunningLine(current_node_name))]_vars

\* a noop node has run on a State holding a non-default count and an extra key
C9_Witness ==
    /\ discipline = "B"
    /\ executed # <<>>
    /\ node_map[executed[Len(executed)]] = "noop"
    /\ "note" \in DOMAIN current_state
    /\ current_state.iteration_count = 11

\* C12 as stated, for both disciplines: without a start node no run of the
\* Workflow gets under way, and a run of the Engine given no start node name
\* ends in an error with no node executed.
C12_Original ==
    /\ (discipline = "A" /\ start_node = None)
         => (pc = "idle" /\ status = "created"
               /\ invoked = [n \in NodeIds |-> 0])
    /\ (RunEnded /\ executed = <<>> /\ current_node_name = None)
         => engine_exc # None

\* C12 amended: Workflow.execute with no start node raises ValueError at once,
\* nothing of the Workflow changing and no node executed; Engine.execute given
\* no start node name executes no node and returns normally with the line
\* "Workflow completed successfully".
C12_NoStartNode ==
    /\ [][execute_no_entry
            => /\ exc' = "ValueError: No entry point set for workflow"
               /\ UNCHANGED <<status, state, execution_history, invoked,
                              node_status, pc>>]_vars
    /\ []((discipline = "A" /\ start_node = None)
            => (pc = "idle" /\ status = "created"
                  /\ invoked = [n \in NodeIds |-> 0]))
    /\ []((RunEnded /\ executed = <<>> /\ current_node_name = None)
            => /\ engine_pc = "done"
               /\ engine_exc = None
               /\ steps = 0
               /\ LastLog = CompletedLine)

\* execute has just failed on a Workflow with nodes and no entry point
C12_Witness ==
    /\ exc = "ValueError: No entry point set for workflow"
    /\ start_node = None
    /\ nodes # {}
    /\ status = "created"

\* some edge leaving n has a condition whose evaluation fails on st
SomeEvalRaises(n, st) ==
    \E k \in 1..Len(engine_edges) :
        /\ engine_edges[k].from_node = n
        /\ engine_edges[k].condition # None
        /\ EvalRaises(engine_edges[k].condition, st)

\* C17 as stated, for both disciplines: no run ends as failed, or raises,
\* because an edge predicate threw.
C17_Original ==
    /\ status = "failed" => exc # PredicateError
    /\ engine_pc = "raised"
         => engine_exc \in {"ValueError: Node not found",
                            "ValueError: Tool not found"}

\* C17 amended: in Discipline B a condition whose evaluation fails does not
\* abort the run: the step ends without an exception, the edge counts as not
\* satisfied and the other edges of the node still decide the next node. In
\* Discipline A the exception of a predicate leaves get_next_nodes and
\* execute: the run ends as failed with that exception.
C17_PredicateThrows ==
    /\ [][(engine_pc = "loop" /\ executed' = Append(executed, current_node_name)
              /\ SomeEvalRaises(current_node_name, current_state'))
            => /\ engine_pc' = "loop"
               /\ engine_exc' = None
               /\ steps' = steps + 1
               /\ IF SatisfiedFrom(current_node_name, current_state') = {}
                  THEN current_node_name' = None
                  ELSE \E k \in SatisfiedFrom(current_node_name, current_state') :
                         current_node_name' = engine_edges[k].to_node]_vars
    /\ [](engine_pc = "raised"
            => engine_exc \in {"ValueError: Node not found",
                               "ValueError: Tool not found"})
    /\ [][\A n \in NodeIds :
            (pc = "call" /\ current_nodes[idx] = n /\ ~InList(n, end_nodes)
                /\ node_status'[n] = "completed"
                /\ get_next_nodes_raises(edges, state', n))
              => /\ status' = "failed"
                 /\ exc' = PredicateError
                 /\ pc' = "idle"]_vars

\* the first edge of n1 failed to evaluate, the second led on to n2, and the
\* run completed
C17_Witness ==
    /\ engine_pc = "done"
    /\ engine_exc = None
    /\ engine_edges = <<Edge("n1", "n2", BadCond), Edge("n1", "n2", None)>>
    /\ executed = <<"n1", "n2">>
    /\ LastLog = CompletedLine

\* the number of outcome lines in a log
OutcomeLines(logs) ==
    Cardinality({k \in 1..Len(logs) : logs[k] \in {CompletedLine, MaxStepsLine}})

\* the Engine part of C21: the step that ends a run without raising appends
\* one outcome line, the ceiling line after 10 executions, and the log of a
\* run holds no other outcome line
EngineOutcomeLine ==
    /\ [][(engine_pc = "loop" /\ engine_pc' = "done")
            => current_state' =
                 [current_state EXCEPT !.logs =
                     Append(@, IF Len(executed) = MAX_STEPS
                               THEN MaxStepsLine ELSE CompletedLine)]]_vars
    /\ [](OutcomeLines(current_state.logs) = IF engine_pc = "done" THEN 1 ELSE 0)

RECURSIVE Alone(_, _, _, _)
Alone(g, st, cur, n) ==
    IF cur = None \/ n >= MAX_STEPS
    THEN RunRecord("COMPLETED",
                   [st EXCEPT !.logs =
                       Append(@, IF n >= MAX_STEPS THEN MaxStepsLine
                                 ELSE CompletedLine)],
                   None)
    ELSE IF cur \notin DOMAIN g.nodes
    THEN RunRecord("FAILED", NullState, "Node not found")
    ELSE IF g.nodes[cur] \notin Registry
    THEN RunRecord("FAILED", NullState, "Tool not found")
    ELSE Alone(g, task_run_node(g, st, cur),
               get_next_node_name(g.edges, cur, task_run_node(g, st, cur)),
               n + 1)

RunAlone(g, init) == Alone(g, Overlay(DefaultState, init), g.start_node, 0)

\* C23: under every interleaving of the background tasks, the record of a
\* finished run is the one its graph and initial state give when run alone;
\* a step of a task changes only that task's Engine and State, and a run's
\* record is written only by steps of its own task (or by the request that
\* creates it).
C23_RunsIndependent ==
    /\ [](\A r \in RunIds :
            tasks[r].pc = "done"
              => RUNS[r] = RunAlone(tasks[r].graph, tasks[r].init))
    /\ [][\A r \in RunIds :
            (tasks'[r] # tasks[r] \/ RUNS'[r] # RUNS[r])
              => \A q \in RunIds \ {r} :
                   tasks'[q] = tasks[q] /\ RUNS'[q] = RUNS[q]]_vars

\* two runs of the same graph from different initial states: the second has
\* finished and recorded its state while the first, started earlier, is
\* still in its loop
C23_Witness ==
    /\ tasks[1].pc = "loop"
    /\ tasks[1].steps >= 2
    /\ tasks[2].pc = "done"
    /\ tasks[1].graph = tasks[2].graph
    /\ tasks[1].init # tasks[2].init
    /\ RUNS[2].status = "COMPLETED"
    /\ RUNS[2].state # tasks[1].state
    /\ RUNS[1] = RunRecord("RUNNING", NullState, None)

\* ---------------------------------------------------------------------
\* Engine.execute: the outcome line and the ceiling
\* ---------------------------------------------------------------------

\* C25: a run that ends because no outgoing edge of the last executed node
\* qualifies logs "Workflow completed successfully"; "Maximum steps reached"
\* is logged only when a current node was still set when the ceiling stopped
\* the loop, for every chain length, the tenth execution included.
C25_OutcomeFollowsCause ==
    engine_pc = "done"
      => /\ (current_node_name = None => LastLog = CompletedLine)
         /\ (LastLog = MaxStepsLine => current_node_name # None)

\* the tenth execution leaves no successor, and the ceiling line is logged
C25_Witness ==
    /\ discipline = "B"
    /\ engine_pc = "done"
    /\ Len(executed) = MAX_STEPS
    /\ current_node_name = None
    /\ LastLog = MaxStepsLine

\* ---------------------------------------------------------------------
\* Engine.run_node: the merge of the returned updates
\* ---------------------------------------------------------------------

\* the step executes a node: run_node returned
NodeRan == Len(executed') = Len(executed) + 1

\* the mapping the tool of the current node returns, and the state it is given
LoggedState == [current_state EXCEPT !.logs = Append(@, RunningLine(current_node_name))]
ReturnedUpdates == ToolResult(node_map[current_node_name], LoggedState)

\* C26: after the tool of a node returns a mapping U, the new state is the
\* previous state with the keys of U overwritten by the values of U; every
\* other key, declared or extra, keeps its value, apart from the "Running
\* node" line appended to logs.
C26_MergeKeepsOtherKeys ==
    [][NodeRan =>
        /\ DOMAIN current_state' = DOMAIN current_state \cup DOMAIN ReturnedUpdates
        /\ \A k \in DOMAIN current_state' :
              current_state'[k] =
                 IF k \in DOMAIN ReturnedUpdates THEN ReturnedUpdates[k]
                 ELSE IF k = "logs"
                      THEN Append(current_state.logs, RunningLine(current_node_name))
                      ELSE current_state[k]]_vars

\* two tools ran on a state with an extra key: the summary and the count are
\* the last tool's, the extra key and the untouched declared key are kept
C26_Witness ==
    /\ discipline = "B"
    /\ Len(executed) = 2
    /\ node_map[executed[1]] = "merge"
    /\ node_map[executed[2]] = "refine"
    /\ "note" \in DOMAIN current_state
    /\ current_state.note = "keep"
    /\ current_state.original_text = ""
    /\ current_state.current_summary = "refined"
    /\ current_state.iteration_count = start_count - 1

\* ---------------------------------------------------------------------
\* Workflow.execute: abort on a failing node, order of execution, coverage
\* ---------------------------------------------------------------------

HasFailedEntry ==
    \E k \in 1..Len(execution_history) : execution_history[k].status = "failed"

\* C27: once a node raises, no other node is executed in that run: the
\* failed entry is the last of the history, the nodes left in the frontier
\* and all successors stay pending, and no predicate is evaluated afterwards
\* (the loop, the only place that evaluates predicates, is left at once).
C27_RaiseAbortsRun ==
    /\ [](HasFailedEntry
            => /\ pc = "idle"
               /\ status = "failed"
               /\ execution_history[Len(execution_history)].status = "failed"
               /\ \A k \in 1..(Len(execution_history) - 1) :
                     execution_history[k].status = "completed"
               /\ \A n \in NodeIds :
                     HistoryCount(n) = 0 => node_status[n] = "pending")
    /\ [][(pc = "call" /\ exc' = NodeError)
            => (/\ pc' = "idle"
                /\ \A k \in (idx + 1)..Len(current_nodes) :
                      current_nodes[k] \notin visited
                        => node_status'[current_nodes[k]] = "pending"
                /\ \A k \in 1..Len(next_nodes) :
                      next_nodes[k] \notin visited
                        => node_status'[next_nodes[k]] = "pending")]_vars
    /\ [][(status = "failed" /\ status' = "failed")
            => (invoked' = invoked /\ execution_history' = execution_history)]_vars

\* b raises in the frontier <<b, c>>: c, still to run, is left pending
C27_Witness ==
    /\ discipline = "A"
    /\ pc = "idle"
    /\ status = "failed"
    /\ Len(edges) >= 2
    /\ edges[1] = Edge("a", "b", None)
    /\ edges[2] = Edge("a", "c", "key_exists")
    /\ execution_history = <<Entry("a", "completed", None),
                             Entry("b", "failed", NodeError)>>
    /\ state["x"] = "v1"
    /\ node_status["c"] = "pending"
    /\ invoked = [n \in NodeIds |-> IF n = "c" THEN 0 ELSE 1]

\* C28: nodes are executed one at a time in breadth-first layer order: the
\* node called is the first node of the current frontier that has not run,
\* the frontier is replaced only when all of it has run, by the list of ids
\* collected meanwhile, and that list grows in the order of the executed
\* predecessors and, for one predecessor, in edge declaration order.
C28_BreadthFirstOrder ==
    /\ [](Cardinality({n \in NodeIds : node_status[n] = "running"}) <= 1)
    /\ [][(pc = "for" /\ pc' = "call")
            => (/\ invoked' = [invoked EXCEPT ![current_nodes[idx]] = @ + 1]
                /\ current_nodes[idx] \notin visited
                /\ \A k \in 1..(idx - 1) : current_nodes[k] \in visited
                /\ current_nodes' = current_nodes
                /\ next_nodes' = next_nodes)]_vars
    /\ [][(pc # "idle" /\ pc' # "idle" /\ current_nodes' # current_nodes)
            => (/\ \A k \in 1..Len(current_nodes) : current_nodes[k] \in visited
                /\ pc = "for"
                /\ current_nodes' = next_nodes
                /\ next_nodes' = <<>>
                /\ idx' = 1
                /\ invoked' = invoked)]_vars
    /\ [][(pc = "call" /\ pc' = "for")
            => next_nodes' =
                 IF InList(current_nodes[idx], end_nodes) THEN next_nodes
                 ELSE next_nodes \o get_next_nodes(edges, state', current_nodes[idx])]_vars

\* c runs as the second node of the frontier <<b, c>> while the id collected
\* from b waits in the next frontier
C28_Witness ==
    /\ discipline = "A"
    /\ pc = "call"
    /\ current_nodes = <<"b", "c">>
    /\ idx = 2
    /\ next_nodes = <<"c">>
    /\ HistoryIds = <<"a", "b">>
    /\ node_status["c"] = "running"

\* C29: for every graph, cyclic or not, and every initial state a run
\* executes at most 10 nodes and then ends; the number of node executions
\* exceeds the ceiling in no reachable state.
C29_CeilingBoundsRun ==
    /\ [](/\ Len(executed) <= MAX_STEPS
          /\ steps = Len(executed))
    /\ (engine_pc = "loop" ~> engine_pc \in {"done", "raised"})

\* an unconditional self-loop stopped after its tenth execution
C29_Witness ==
    /\ discipline = "B"
    /\ engine_pc = "done"
    /\ executed = [k \in 1..MAX_STEPS |-> "n1"]
    /\ current_node_name = "n1"
    /\ engine_edges = <<Edge("n1", "n1", None)>>
    /\ engine_exc = None

AllUnconditional == \A k \in 1..Len(edges) : edges[k].condition = None

\* the nodes reachable from the members of S along edges
RECURSIVE ReachableFrom(_)
ReachableFrom(S) ==
    LET T == S \cup {edges[k].to_node :
                        k \in {j \in 1..Len(edges) : edges[j].from_node \in S}}
    IN  IF T = S THEN S ELSE ReachableFrom(T)

\* C30: when a run completes on a graph whose edges are all unconditional
\* and which has no terminal nodes, the ids in the history are exactly the
\* nodes reachable from the start node along edges.
C30_CompletedRunCoversReachable ==
    [][(status # "completed" /\ status' = "completed"
          /\ AllUnconditional /\ end_nodes = <<>>)
        => {execution_history'[k].node_id : k \in 1..Len(execution_history')}
             = ReachableFrom({start_node})]_vars

\* a completed run from b over a cycle on b and an edge to c; a, which only
\* leads to b, is not reachable and has not run
C30_Witness ==
    /\ discipline = "A"
    /\ pc = "idle"
    /\ status = "completed"
    /\ start_node = "b"
    /\ end_nodes = <<>>
    /\ nodes = NodeIds
    /\ edges = <<Edge("b", "b", None), Edge("b", "c", None), Edge("a", "b", None)>>
    /\ HistoryIds = <<"b", "c">>
    /\ node_status["a"] = "pending"

\* ---------------------------------------------------------------------
\* Both disciplines: a run leaves the topology alone
\* ---------------------------------------------------------------------

\* the step belongs to a call of Workflow.execute
WorkflowRunStep ==
    /\ discipline = "A"
    /\ \/ pc # "idle"
       \/ pc' # "idle"
       \/ (start_node = None /\ exc' = "ValueError: No entry point set for workflow")

\* the step belongs to a call of Engine.execute
EngineRunning ==
    /\ discipline = "B"
    /\ (engine_pc # "idle" \/ engine_pc' # "idle")

\* C31: executing a graph, in either discipline and whether the run
\* completes or fails, leaves the node set, the edge list with its order, the
\* start node and the terminal list as they were; only node statuses, state,
\* history and status change.
C31_RunKeepsTopology ==
    /\ [][WorkflowRunStep
            => (nodes' = nodes /\ edges' = edges /\ start_node' = start_node
                  /\ end_nodes' = end_nodes)]_vars
    /\ [][EngineRunning
            => (node_map' = node_map /\ engine_edges' = engine_edges)]_vars

\* a second run, failed at its second node, over three edges and a terminal
C31_Witness ==
    /\ discipline = "A"
    /\ pc = "idle"
    /\ status = "failed"
    /\ prior_status = "completed"
    /\ Len(execution_history) = 2
    /\ Len(edges) = MaxEdges
    /\ end_nodes = <<"c">>
    /\ nodes = NodeIds

\* ---------------------------------------------------------------------
\* Workflow.execute: the state the predicates see
\* ---------------------------------------------------------------------

\* C32: the predicates of a node's outgoing edges are evaluated on the state
\* as it is right after that node's execution, before any later node of the
\* frontier runs: what later nodes of the frontier write never changes the
\* successors already selected for an earlier node, while each later node is
\* given the state the earlier nodes of its frontier left.
C32_PredicatesSeeOwnNodeState ==
    /\ [][(pc = "call" /\ pc' = "for" /\ ~InList(current_nodes[idx], end_nodes))
            => next_nodes' =
                 next_nodes \o get_next_nodes(edges, state', current_nodes[idx])]_vars
    /\ [][(pc # "idle" /\ pc' # "idle"
              /\ ~(pc = "for" /\ idx > Len(current_nodes)))
            => (/\ current_nodes' = current_nodes
                /\ Prefix(next_nodes, next_nodes')
                /\ (pc = "for" => next_nodes' = next_nodes))]_vars
    /\ [][(pc = "for" /\ pc' = "call") => state' = state]_vars
    /\ [][(pc = "call" /\ pc' = "for") => state' \in ReturnValues(state)]_vars

\* b -> a was judged on the state b left (x = "v0") and not selected; c, later
\* in the same frontier, set x to "v1", which would satisfy b -> a now
C32_Witness ==
    /\ discipline = "A"
    /\ pc = "for"
    /\ edges = <<Edge("a", "b", None), Edge("a", "c", "key_exists"),
                 Edge("b", "a", "subscript")>>
    /\ current_nodes = <<"b", "c">>
    /\ idx = 3
    /\ HistoryIds = <<"a", "b", "c">>
    /\ next_nodes = <<>>
    /\ state["x"] = "v1"
    /\ should_traverse(edges[3], state)

\* ---------------------------------------------------------------------
\* The service: a run that meets an unknown node or tool
\* ---------------------------------------------------------------------

\* the task's Engine is about to run a name that is no node of its graph, or
\* a node whose tool is not registered
Unrunnable(t) ==
    /\ t.pc = "loop"
    /\ t.cur # None
    /\ t.steps < MAX_STEPS
    /\ \/ t.cur \notin DOMAIN t.graph.nodes
       \/ t.graph.nodes[t.cur] \notin Registry

\* run_node raises at that step and runs no operation for the name
C33_RaisesBeforeOperation ==
    [][\A r \in RunIds :
          (Unrunnable(tasks[r]) /\ tasks'[r] # tasks[r])
            => /\ tasks'[r].pc = "raised"
               /\ tasks'[r].exc =
                    IF tasks[r].cur \notin DOMAIN tasks[r].graph.nodes
                    THEN "Node not found" ELSE "Tool not found"
               /\ tasks'[r].state = tasks[r].state
               /\ tasks'[r].steps = tasks[r].steps
               /\ RUNS' = RUNS]_vars

\* the finished task has recorded FAILED with the error text and a null state
C33_FailureRecorded ==
    \A r \in RunIds :
        /\ (tasks[r].pc = "done" /\ tasks[r].exc # None)
             => RUNS[r] = RunRecord("FAILED", NullState, tasks[r].exc)
        /\ RUNS[r].status = "FAILED" => RUNS[r].state = NullState

\* a record that is COMPLETED or FAILED does not change
C33_TerminalRecordFrozen ==
    [][\A r \in RunIds :
          RUNS[r].status \in {"COMPLETED", "FAILED"} => RUNS'[r] = RUNS[r]]_vars

\* a record does not change once its task is over
C33_FinishedRecordFrozen ==
    [][\A r \in RunIds : tasks[r].pc = "done" => RUNS'[r] = RUNS[r]]_vars

\* C33: when the current node name is no node of the graph, or its tool is
\* not registered, the run raises at that step without running an operation
\* for it; the background task records FAILED with the error text, the
\* recorded state stays null, and a record never changes again once it is
\* COMPLETED or FAILED.
C33_UnknownNodeFailsRun ==
    /\ C33_RaisesBeforeOperation
    /\ []C33_FailureRecorded
    /\ C33_TerminalRecordFrozen

\* the record of a run that met an unregistered tool after one executed node
\* reads FAILED while its error text is still to be written
C33_Witness ==
    /\ discipline = "S"
    /\ \E r \in RunIds :
          /\ tasks[r].pc = "failed_set"
          /\ tasks[r].exc = "Tool not found"
          /\ tasks[r].steps = 1
          /\ RUNS[r] = RunRecord("FAILED", NullState, None)

====
